---- MODULE Spec2Model ----
(***************************************************************************)
(* lazyros: the event-driven control plane of the terminal dashboard.      *)
(*                                                                         *)
(* The model follows src/src/app.rs (App, PaneManager, NodePane,           *)
(* TopicPane) and src/src/main.rs (the mpsc channel and its producers).    *)
(* The Controller is App::run: it blocks on the channel, handles one       *)
(* event, redraws, and re-tests its loop condition.                        *)
(***************************************************************************)
EXTENDS Integers, Sequences, FiniteSets, TLC

(***************************************************************************)
(* Bounds of the model.                                                    *)
(***************************************************************************)
\* events crossterm::event::read() delivers to the input thread in one run
MaxInputs == 4
\* ROS events sent into the channel in one run
MaxRosEvents == 1
\* events waiting in the (unbounded) mpsc channel at one time
MaxBus == 1
\* usize is modelled with this many bits (TLC's integers are 32 bits wide)
UsizeBits == 16
\* in a queued key script: topics discovered first, Down presses per round
MaxTopics == 3
MaxDowns == 4
\* with the producers of main.rs: events waiting in the channel, payloads
\* the stream delivers, Down presses the user types in one go
MaxQueued == 2
MaxPayloads == 2
MaxMoves == 2

(***************************************************************************)
(* Program constants.                                                      *)
(***************************************************************************)
ITEM_HEIGHT == 1
\* App::new adds the test nodes of `for i in 1..15`
LastTestNode == 14

UsizeModulus == 2 ^ UsizeBits
USIZE_MAX == UsizeModulus - 1

\* Option<usize>: None is the empty sequence, Some(i) is <<i>>
None == <<>>
Some(i) == <<i>>
Unwrap(o) == o[1]

\* a - b on usize in a build without overflow checks (release profile)
WrappingSub(a, b) == (a - b + UsizeModulus) % UsizeModulus
SaturatingAdd(a, b) == IF a + b > USIZE_MAX THEN USIZE_MAX ELSE a + b
SaturatingSub(a, b) == IF a < b THEN 0 ELSE a - b

(***************************************************************************)
(* Events (src/src/event.rs and the variants app.rs matches on).           *)
(***************************************************************************)
KeyCodes ==
    {"q", "i", "Enter", "Esc", "Left", "h", "Right", "l",
     "Up", "k", "Down", "j", "n", "t", "d", "x"}
KeyEventKinds == {"Press", "Release"}

KeyEvent(code, kind) == [type |-> "Input", code |-> code, kind |-> kind]
Press(code) == KeyEvent(code, "Press")
Resize == [type |-> "Resize"]
SubscriptionMessage(msg) == [type |-> "SubscriptionMessage", msg |-> msg]
NewNode(name) == [type |-> "NewNode", name |-> name]
NewTopic(name, msg_type) == [type |-> "NewTopic", name |-> name, msg_type |-> msg_type]

\* the key events the input thread forwards: every code pressed, and a
\* release of the codes the handlers would act on when pressed
ReleasedCodes == {"q", "Down"}
InputEvents ==
    {Press(c) : c \in KeyCodes} \cup {KeyEvent(c, "Release") : c \in ReleasedCodes}
        \cup {Resize}

NodeName(i) == "/node" \o ToString(i)
NodeNames == {NodeName(1), "/talker"}
TopicNames == {"/topic", "/rosout"}
MsgTypes == {"std_msgs/msg/String"}
Payloads == {"hello"}
RosEvents ==
    {SubscriptionMessage(m) : m \in Payloads}
        \cup {NewNode(n) : n \in NodeNames}
        \cup {NewTopic(n, t) : n \in TopicNames, t \in MsgTypes}

(***************************************************************************)
(* ratatui's TableState and ScrollbarState, as far as app.rs uses them.    *)
(***************************************************************************)
TableState_default == [selected |-> None, selected_column |-> None]
ScrollbarState_new(content_length) == [content_length |-> content_length, position |-> 0]
ScrollbarState_default == ScrollbarState_new(0)

select_next_column(state) ==
    [state EXCEPT !.selected_column =
        Some(IF @ = None THEN 0 ELSE SaturatingAdd(Unwrap(@), 1))]
select_previous_column(state) ==
    [state EXCEPT !.selected_column =
        Some(IF @ = None THEN USIZE_MAX ELSE SaturatingSub(Unwrap(@), 1))]

(***************************************************************************)
(* PaneManager                                                             *)
(***************************************************************************)
PaneType == {"NodePane", "TopicsPane", "DetailsPane"}
AppState == {"Navigation", "ShowingInstructions", "ActivePane", "Exit"}

previous_pane(self) ==
    [self EXCEPT !.focused_pane =
        CASE @ = "NodePane" -> "DetailsPane"
          [] @ = "TopicsPane" -> "NodePane"
          [] @ = "DetailsPane" -> "TopicsPane"]

\* next_pane with the last arm copied from previous_pane
next_pane_copied_arm(self) ==
    [self EXCEPT !.focused_pane =
        CASE @ = "NodePane" -> "TopicsPane"
          [] @ = "TopicsPane" -> "DetailsPane"
          [] @ = "DetailsPane" -> "TopicsPane"]

next_pane(self) ==
    [self EXCEPT !.focused_pane =
        CASE @ = "NodePane" -> "TopicsPane"
          [] @ = "TopicsPane" -> "DetailsPane"
          [] @ = "DetailsPane" -> "NodePane"]

PaneManager_handle_key_event(self, key_event) ==
    IF key_event.kind # "Press" THEN self
    ELSE CASE key_event.code \in {"Left", "h"} -> previous_pane(self)
           [] key_event.code \in {"Right", "l"} -> next_pane(self)
           [] key_event.code = "n" -> [self EXCEPT !.focused_pane = "NodePane"]
           [] key_event.code = "t" -> [self EXCEPT !.focused_pane = "TopicsPane"]
           [] key_event.code = "d" -> [self EXCEPT !.focused_pane = "DetailsPane"]
           [] OTHER -> self

(***************************************************************************)
(* TopicPane                                                               *)
(***************************************************************************)
TopicPane_default ==
    [state |-> TableState_default, scroll_state |-> ScrollbarState_default, topics |-> <<>>]

\* TopicPane::add_topic written with `insert(0, topic)`
add_topic_at_head(self, topic) ==
    LET pushed == <<topic>> \o self.topics
    IN  [self EXCEPT !.topics = pushed,
                     !.scroll_state = ScrollbarState_new(Len(pushed))]

add_topic(self, topic) ==
    LET pushed == Append(self.topics, topic)
    IN  [self EXCEPT !.topics = pushed,
                     !.scroll_state = ScrollbarState_new(Len(pushed))]

\* `self.topics.len() - 1` is evaluated only in the arm it stands in
TopicPane_next_row_overflows(self) ==
    self.state.selected # None /\ Len(self.topics) < 1

\* TopicPane::next_row wrapping one row late: `i >= self.topics.len()`
TopicPane_next_row_wraps_late(self) ==
    LET i == IF self.state.selected = None THEN 0
             ELSE IF Unwrap(self.state.selected) >= Len(self.topics)
                  THEN 0
                  ELSE Unwrap(self.state.selected) + 1
    IN  [self EXCEPT !.state.selected = Some(i),
                     !.scroll_state.position = i * ITEM_HEIGHT]

TopicPane_next_row(self) ==
    LET i == IF self.state.selected = None THEN 0
             ELSE IF Unwrap(self.state.selected) >= WrappingSub(Len(self.topics), 1)
                  THEN 0
                  ELSE Unwrap(self.state.selected) + 1
    IN  [self EXCEPT !.state.selected = Some(i),
                     !.scroll_state.position = i * ITEM_HEIGHT]

TopicPane_previous_row_overflows(self) ==
    self.state.selected = Some(0) /\ Len(self.topics) < 1

TopicPane_previous_row(self) ==
    LET i == IF self.state.selected = None THEN 0
             ELSE IF Unwrap(self.state.selected) = 0
                  THEN WrappingSub(Len(self.topics), 1)
                  ELSE Unwrap(self.state.selected) - 1
    IN  [self EXCEPT !.state.selected = Some(i),
                     !.scroll_state.position = i * ITEM_HEIGHT]

TopicPane_next_column(self) == [self EXCEPT !.state = select_next_column(@)]
TopicPane_previous_column(self) == [self EXCEPT !.state = select_previous_column(@)]

TopicPane_handle_arrow(self, movement) ==
    CASE movement = "Up" -> TopicPane_previous_row(self)
      [] movement = "Down" -> TopicPane_next_row(self)
      [] movement = "Left" -> TopicPane_previous_column(self)
      [] movement = "Right" -> TopicPane_next_column(self)

\* the movement a pane's handle_key_event derives from a key event, None
\* when the event is not a press or its code is not a movement key
Movement(key_event) ==
    IF key_event.kind # "Press" THEN None
    ELSE CASE key_event.code \in {"Up", "k"} -> Some("Up")
           [] key_event.code \in {"Down", "j"} -> Some("Down")
           [] key_event.code \in {"Left", "h"} -> Some("Left")
           [] key_event.code \in {"Right", "l"} -> Some("Right")
           [] OTHER -> None

TopicPane_handle_key_event(self, key_event) ==
    IF Movement(key_event) = None THEN self
    ELSE TopicPane_handle_arrow(self, Unwrap(Movement(key_event)))

TopicPane_handle_key_event_overflows(self, key_event) ==
    \/ Movement(key_event) = Some("Up") /\ TopicPane_previous_row_overflows(self)
    \/ Movement(key_event) = Some("Down") /\ TopicPane_next_row_overflows(self)

(***************************************************************************)
(* NodePane                                                                *)
(***************************************************************************)
NodePane_default ==
    [state |-> TableState_default, scroll_state |-> ScrollbarState_default, nodes |-> <<>>]

add_node(self, node) ==
    LET pushed == Append(self.nodes, node)
    IN  [self EXCEPT !.nodes = pushed,
                     !.scroll_state = ScrollbarState_new(Len(pushed))]

NodePane_next_row_overflows(self) ==
    self.state.selected # None /\ Len(self.nodes) < 1

NodePane_next_row(self) ==
    LET i == IF self.state.selected = None THEN 0
             ELSE IF Unwrap(self.state.selected) >= WrappingSub(Len(self.nodes), 1)
                  THEN 0
                  ELSE Unwrap(self.state.selected) + 1
    IN  [self EXCEPT !.state.selected = Some(i),
                     !.scroll_state.position = i * ITEM_HEIGHT]

NodePane_previous_row_overflows(self) ==
    self.state.selected = Some(0) /\ Len(self.nodes) < 1

NodePane_previous_row(self) ==
    LET i == IF self.state.selected = None THEN 0
             ELSE IF Unwrap(self.state.selected) = 0
                  THEN WrappingSub(Len(self.nodes), 1)
                  ELSE Unwrap(self.state.selected) - 1
    IN  [self EXCEPT !.state.selected = Some(i),
                     !.scroll_state.position = i * ITEM_HEIGHT]

NodePane_next_column(self) == [self EXCEPT !.state = select_next_column(@)]
NodePane_previous_column(self) == [self EXCEPT !.state = select_previous_column(@)]

\* NodePane::handle_arrow with the Left arm calling previous_row
NodePane_handle_arrow_left_moves_row(self, movement) ==
    CASE movement = "Up" -> NodePane_previous_row(self)
      [] movement = "Down" -> NodePane_next_row(self)
      [] movement = "Left" -> NodePane_previous_row(self)
      [] movement = "Right" -> NodePane_next_column(self)

NodePane_handle_arrow(self, movement) ==
    CASE movement = "Up" -> NodePane_previous_row(self)
      [] movement = "Down" -> NodePane_next_row(self)
      [] movement = "Left" -> NodePane_previous_column(self)
      [] movement = "Right" -> NodePane_next_column(self)

NodePane_handle_key_event(self, key_event) ==
    IF Movement(key_event) = None THEN self
    ELSE NodePane_handle_arrow(self, Unwrap(Movement(key_event)))

NodePane_handle_key_event_overflows(self, key_event) ==
    \/ Movement(key_event) = Some("Up") /\ NodePane_previous_row_overflows(self)
    \/ Movement(key_event) = Some("Down") /\ NodePane_next_row_overflows(self)

(***************************************************************************)
(* App                                                                     *)
(***************************************************************************)
NodeData(name) == [name |-> name]
TopicData(name, msg_type) == [name |-> name, msg_type |-> msg_type, num_subscribers |-> 0]

PaneManager_default ==
    [node_pane |-> NodePane_default, topics_pane |-> TopicPane_default,
     details_pane |-> "", focused_pane |-> "NodePane"]

RECURSIVE AddTestNodes(_, _)
AddTestNodes(pane, i) ==
    IF i > LastTestNode THEN pane
    ELSE AddTestNodes(add_node(pane, NodeData(NodeName(i))), i + 1)

App_new ==
    [app_state |-> "Navigation",
     details |-> <<>>,
     pane_manager |->
        [PaneManager_default EXCEPT !.node_pane = AddTestNodes(@, 1)]]

\* handle_ros_events putting a new node at the head of the list
handle_ros_events_node_first(self, ros_event) ==
    CASE ros_event.type = "SubscriptionMessage" ->
            [self EXCEPT !.details = Append(@, ros_event.msg)]
      [] ros_event.type = "NewNode" ->
            [self EXCEPT !.pane_manager.node_pane.nodes =
                            <<NodeData(ros_event.name)>> \o @,
                         !.pane_manager.node_pane.scroll_state =
                            ScrollbarState_new(Len(self.pane_manager.node_pane.nodes) + 1)]
      [] ros_event.type = "NewTopic" ->
            [self EXCEPT !.pane_manager.topics_pane =
                add_topic(@, TopicData(ros_event.name, ros_event.msg_type))]

handle_ros_events(self, ros_event) ==
    CASE ros_event.type = "SubscriptionMessage" ->
            [self EXCEPT !.details = Append(@, ros_event.msg)]
      [] ros_event.type = "NewNode" ->
            [self EXCEPT !.pane_manager.node_pane = add_node(@, NodeData(ros_event.name))]
      [] ros_event.type = "NewTopic" ->
            [self EXCEPT !.pane_manager.topics_pane =
                add_topic(@, TopicData(ros_event.name, ros_event.msg_type))]

\* match_arm with the Enter pattern written `(_, Enter)`
match_arm_enter_anywhere(st, code) ==
    IF st \in {"Navigation", "ActivePane"} /\ code = "i" THEN "show_instructions"
    ELSE IF code = "q" THEN "exit"
    ELSE IF st = "ShowingInstructions" /\ code = "Esc" THEN "hide_instructions"
    ELSE IF st = "ShowingInstructions" /\ code = "i" THEN "hide_instructions"
    ELSE IF code = "Enter" THEN "activate"
    ELSE IF st = "ActivePane" /\ code = "Esc" THEN "deactivate"
    ELSE IF st = "ActivePane" THEN "to_focused_pane"
    ELSE IF st = "Navigation" THEN "to_pane_manager"
    ELSE "ignore"

\* match_arm with the first pattern written `(Navigation, 'i')`
match_arm_i_in_navigation_only(st, code) ==
    IF st = "Navigation" /\ code = "i" THEN "show_instructions"
    ELSE IF code = "q" THEN "exit"
    ELSE IF st = "ShowingInstructions" /\ code = "Esc" THEN "hide_instructions"
    ELSE IF st = "ShowingInstructions" /\ code = "i" THEN "hide_instructions"
    ELSE IF st = "Navigation" /\ code = "Enter" THEN "activate"
    ELSE IF st = "ActivePane" /\ code = "Esc" THEN "deactivate"
    ELSE IF st = "ActivePane" THEN "to_focused_pane"
    ELSE IF st = "Navigation" THEN "to_pane_manager"
    ELSE "ignore"

\* match_arm with the `(ActivePane, _)` pattern above `(ActivePane, Esc)`
match_arm_esc_to_focused_pane(st, code) ==
    IF st \in {"Navigation", "ActivePane"} /\ code = "i" THEN "show_instructions"
    ELSE IF code = "q" THEN "exit"
    ELSE IF st = "ShowingInstructions" /\ code = "Esc" THEN "hide_instructions"
    ELSE IF st = "ShowingInstructions" /\ code = "i" THEN "hide_instructions"
    ELSE IF st = "Navigation" /\ code = "Enter" THEN "activate"
    ELSE IF st = "ActivePane" THEN "to_focused_pane"
    ELSE IF st = "ActivePane" /\ code = "Esc" THEN "deactivate"
    ELSE IF st = "Navigation" THEN "to_pane_manager"
    ELSE "ignore"

\* match_arm with the last pattern, `_ => {}`, left out
match_arm_without_catch_all(st, code) ==
    IF st \in {"Navigation", "ActivePane"} /\ code = "i" THEN "show_instructions"
    ELSE IF code = "q" THEN "exit"
    ELSE IF st = "ShowingInstructions" /\ code = "Esc" THEN "hide_instructions"
    ELSE IF st = "ShowingInstructions" /\ code = "i" THEN "hide_instructions"
    ELSE IF st = "Navigation" /\ code = "Enter" THEN "activate"
    ELSE IF st = "ActivePane" /\ code = "Esc" THEN "deactivate"
    ELSE IF st = "ActivePane" THEN "to_focused_pane"
    ELSE "to_pane_manager"

\* the arm of `match (&self.app_state, key_event.code)` the pair selects:
\* the first pattern, in source order, that matches
match_arm(st, code) ==
    IF st \in {"Navigation", "ActivePane"} /\ code = "i" THEN "show_instructions"
    ELSE IF code = "q" THEN "exit"
    ELSE IF st = "ShowingInstructions" /\ code = "Esc" THEN "hide_instructions"
    ELSE IF st = "ShowingInstructions" /\ code = "i" THEN "hide_instructions"
    ELSE IF st = "Navigation" /\ code = "Enter" THEN "activate"
    ELSE IF st = "ActivePane" /\ code = "Esc" THEN "deactivate"
    ELSE IF st = "ActivePane" THEN "to_focused_pane"
    ELSE IF st = "Navigation" THEN "to_pane_manager"
    ELSE "ignore"

\* handle_key_event without the test of the kind at its top
handle_key_event_any_kind(self, key_event) ==
    LET arm == match_arm(self.app_state, key_event.code)
    IN  CASE arm = "show_instructions" ->
               [self EXCEPT !.app_state = "ShowingInstructions"]
          [] arm = "exit" -> [self EXCEPT !.app_state = "Exit"]
          [] arm = "hide_instructions" -> [self EXCEPT !.app_state = "Navigation"]
          [] arm = "activate" -> [self EXCEPT !.app_state = "ActivePane"]
          [] arm = "deactivate" -> [self EXCEPT !.app_state = "Navigation"]
          [] arm = "to_focused_pane" ->
               CASE self.pane_manager.focused_pane = "NodePane" ->
                       [self EXCEPT !.pane_manager.node_pane =
                           NodePane_handle_key_event(@, key_event)]
                 [] self.pane_manager.focused_pane = "TopicsPane" ->
                       [self EXCEPT !.pane_manager.topics_pane =
                           TopicPane_handle_key_event(@, key_event)]
                 [] OTHER -> self
          [] arm = "to_pane_manager" ->
               [self EXCEPT !.pane_manager = PaneManager_handle_key_event(@, key_event)]
          [] OTHER -> self

handle_key_event(self, key_event) ==
    IF key_event.kind # "Press" THEN self
    ELSE LET arm == match_arm(self.app_state, key_event.code)
         IN  CASE arm = "show_instructions" ->
                    [self EXCEPT !.app_state = "ShowingInstructions"]
               [] arm = "exit" -> [self EXCEPT !.app_state = "Exit"]
               [] arm = "hide_instructions" -> [self EXCEPT !.app_state = "Navigation"]
               [] arm = "activate" -> [self EXCEPT !.app_state = "ActivePane"]
               [] arm = "deactivate" -> [self EXCEPT !.app_state = "Navigation"]
               [] arm = "to_focused_pane" ->
                    CASE self.pane_manager.focused_pane = "NodePane" ->
                            [self EXCEPT !.pane_manager.node_pane =
                                NodePane_handle_key_event(@, key_event)]
                      [] self.pane_manager.focused_pane = "TopicsPane" ->
                            [self EXCEPT !.pane_manager.topics_pane =
                                TopicPane_handle_key_event(@, key_event)]
                      [] OTHER -> self
               [] arm = "to_pane_manager" ->
                    [self EXCEPT !.pane_manager = PaneManager_handle_key_event(@, key_event)]
               [] OTHER -> self

\* whether handling the key reaches a `len() - 1` on an empty list: a panic
\* in a build with overflow checks, a wrap-around in one without
handle_key_event_overflows(self, key_event) ==
    /\ key_event.kind = "Press"
    /\ match_arm(self.app_state, key_event.code) = "to_focused_pane"
    /\ \/ /\ self.pane_manager.focused_pane = "NodePane"
          /\ NodePane_handle_key_event_overflows(self.pane_manager.node_pane, key_event)
       \/ /\ self.pane_manager.focused_pane = "TopicsPane"
          /\ TopicPane_handle_key_event_overflows(self.pane_manager.topics_pane, key_event)

\* handle_event with a Resize arm that leaves the active pane
handle_event_resize_to_navigation(self, event) ==
    CASE event.type = "Input" -> handle_key_event(self, event)
      [] event.type = "Resize" -> [self EXCEPT !.app_state = "Navigation"]
      [] OTHER -> handle_ros_events(self, event)

\* one arm of the match in App::run
handle_event(self, event) ==
    CASE event.type = "Input" -> handle_key_event(self, event)
      [] event.type = "Resize" -> self
      [] OTHER -> handle_ros_events(self, event)

(***************************************************************************)
(* State                                                                   *)
(***************************************************************************)
VARIABLES
    app,            \* the App the Controller owns
    bus,            \* the mpsc channel: events sent and not yet received
    pc,             \* where App::run stands: recv, draw, done, panicked
    redraws,        \* terminal.draw calls since the last receive
    input_reads,    \* events the input thread has read and forwarded
    ros_sends,      \* ROS events sent so far
    hist,           \* history variable: the keys consumed since the last
                    \* Enter consumed in Navigation (read by no action)
    threads,        \* main.rs: where the input thread, the ROS thread and
                    \* its two tasks stand, and the watcher's `topics`
    graph,          \* the Graph Service: the topics and nodes it lists now
    terminal,       \* the terminal: events waiting for crossterm's read()
    log             \* history variable: what the producers were given and
                    \* have sent (read by no action)

vars == <<app, bus, pc, redraws, input_reads, ros_sends, hist, threads, graph, terminal, log>>

Idle == [on |-> FALSE, start |-> <<>>, keys |-> <<>>]

\* The history variable.  It is switched on, with a copy of the App, by an
\* Enter consumed in Navigation; while the Controller has not come back to
\* Navigation it records the pressed Down/j (as "Down"), i and Esc keys and
\* the kinds of the ROS events consumed; any other consumed event switches
\* it off.
Track(self, ev, h) ==
    IF ev = Press("Enter") /\ self.app_state = "Navigation"
    THEN [on |-> TRUE, start |-> self, keys |-> <<>>]
    ELSE IF h.on /\ self.app_state # "Navigation"
    THEN IF ev.type = "Input"
         THEN IF ev.kind = "Press" /\ ev.code \in {"Down", "j", "i", "Esc"}
              THEN [h EXCEPT !.keys = Append(@, IF ev.code = "j" THEN "Down" ELSE ev.code)]
              ELSE Idle
         ELSE IF ev.type = "Resize" THEN Idle
         ELSE [h EXCEPT !.keys = Append(@, ev.type)]
    ELSE Idle

(***************************************************************************)
(* The producers of main.rs and the Graph Service they talk to.            *)
(***************************************************************************)
\* the threads and tasks as main leaves them before their first step
Threads_spawned ==
    [input |-> "reading",       \* handle_input_events: reading, panicked
     ros |-> "setup",           \* run_ros_thread: setup, announce, spinning, failed
     sub |-> "unspawned",       \* subscribe: unspawned, subscribing, streaming, failed
     watch |-> "unspawned",     \* send_topics: unspawned, timer, emitting, failed
     topics |-> <<>>,           \* send_topics: `topics`, the names known
     new_topics |-> <<>>,       \* send_topics: `new_topics` the for loop has yet to send
     payloads |-> 0]            \* subscribe: payloads the stream has delivered

\* the Graph Service: get_topic_names_and_types() answers `topics`, a node
\* listing would answer `nodes`; `hung` when its calls no longer return
GraphTopicNames == {"/topic", "/rosout"}
GraphNodeNames == {"/talker"}
GraphTypeOf(name) == "std_msgs/msg/String"
Graph_quiet == [topics |-> {}, nodes |-> GraphNodeNames, hung |-> FALSE]

\* The history variable of the producers: the terminal events forwarded and
\* not yet received, the topic names and the node names the Graph Service
\* listed when a poll was answered, the names a poll's answer listed that
\* the watcher knew already, the discovery events the watcher sent; and,
\* when `each` is set, the event the Controller received last.
Log_off ==
    [on |-> FALSE, inputs |-> <<>>, reported |-> {}, listed_nodes |-> {},
     known_again |-> {}, emitted |-> <<>>, each |-> FALSE, last |-> <<>>]
Log_on == [Log_off EXCEPT !.on = TRUE]
Log_each == [Log_off EXCEPT !.each = TRUE]
LogRecv(l, ev) ==
    LET m == IF l.each THEN [l EXCEPT !.last = <<ev>>] ELSE l
    IN  IF m.on /\ ev.type \in {"Input", "Resize"} /\ m.inputs # <<>>
        THEN [m EXCEPT !.inputs = Tail(@)]
        ELSE m

Init ==
    /\ app = App_new
    /\ bus = <<>>
    /\ pc = "recv"
    /\ redraws = 0
    /\ input_reads = 0
    /\ ros_sends = 0
    /\ hist = Idle
    /\ threads = Threads_spawned
    /\ graph = Graph_quiet
    /\ terminal = <<>>
    /\ log = Log_off

(***************************************************************************)
(* Producers (src/src/main.rs)                                             *)
(***************************************************************************)
\* the input thread reads one terminal event and sends it
InputSend ==
    /\ input_reads < MaxInputs
    /\ Len(bus) < MaxBus
    /\ \E e \in InputEvents : bus' = Append(bus, e)
    /\ input_reads' = input_reads + 1
    /\ UNCHANGED <<app, pc, redraws, ros_sends, hist, threads, graph, terminal, log>>

\* a holder of a clone of the sender sends one ROS event
RosSend ==
    /\ ros_sends < MaxRosEvents
    /\ Len(bus) < MaxBus
    /\ \E e \in RosEvents : bus' = Append(bus, e)
    /\ ros_sends' = ros_sends + 1
    /\ UNCHANGED <<app, pc, redraws, input_reads, hist, threads, graph, terminal, log>>

(***************************************************************************)
(* The Controller: App::run                                                *)
(***************************************************************************)
\* rx.recv() returns the oldest event and the match arm handles it; a
\* `len() - 1` on an empty list panics in a build with overflow checks and
\* wraps around in one without
RunRecv ==
    /\ pc = "recv"
    /\ bus # <<>>
    /\ bus' = Tail(bus)
    /\ redraws' = 0
    /\ \/ /\ app' = handle_event(app, Head(bus))
          /\ pc' = "draw"
          /\ hist' = Track(app, Head(bus), hist)
       \/ /\ Head(bus).type = "Input"
          /\ handle_key_event_overflows(app, Head(bus))
          /\ app' = app
          /\ pc' = "panicked"
          /\ hist' = Idle
    /\ log' = LogRecv(log, Head(bus))
    /\ UNCHANGED <<input_reads, ros_sends, threads, graph, terminal>>

\* RunDraw as it would be if the loop never re-tested its condition
RunDraw_loop_forever ==
    /\ pc = "draw"
    /\ redraws' = redraws + 1
    /\ pc' = "recv"
    /\ UNCHANGED <<app, bus, input_reads, ros_sends, hist, threads, graph, terminal, log>>

\* terminal.draw, then the loop condition
RunDraw ==
    /\ pc = "draw"
    /\ redraws' = redraws + 1
    /\ pc' = IF app.app_state # "Exit" THEN "recv" ELSE "done"
    /\ UNCHANGED <<app, bus, input_reads, ros_sends, hist, threads, graph, terminal, log>>

Next == InputSend \/ RosSend \/ RunRecv \/ RunDraw

Spec == Init /\ [][Next]_vars

(***************************************************************************)
(* The Controller replaying a queued script.  The channel is unbounded, so *)
(* the producers may have queued a whole script before the Controller      *)
(* receives its first event: some topics discovered, a key that sets the   *)
(* focus, then two rounds of Enter, some Down presses, Esc.                *)
(***************************************************************************)
FocusKeys == {"n", "t", "d"}
ScriptTopic(i) == NewTopic("/topic" \o ToString(i), "std_msgs/msg/String")
Round(k) ==
    <<Press("Enter")>>
        \o [i \in 1..k |-> Press(IF i % 2 = 1 THEN "Down" ELSE "j")]
        \o <<Press("Esc")>>
Script(n, f, j, k) ==
    [i \in 1..n |-> ScriptTopic(i)] \o <<Press(f)>> \o Round(j) \o Round(k)
Scripts ==
    {Script(n, f, j, k) : n \in 0..MaxTopics, f \in FocusKeys,
                          j \in 0..MaxDowns, k \in 0..MaxDowns}

InitKeySeq ==
    /\ app = App_new
    /\ bus \in Scripts
    /\ pc = "recv"
    /\ redraws = 0
    /\ input_reads = 0
    /\ ros_sends = 0
    /\ hist = Idle
    /\ threads = Threads_spawned
    /\ graph = Graph_quiet
    /\ terminal = <<>>
    /\ log = Log_off

NextKeySeq == RunRecv \/ RunDraw

KeySeqSpec == InitKeySeq /\ [][NextKeySeq]_vars

(***************************************************************************)
(* The Controller taking one event of the whole alphabet in every AppState *)
(* it receives in.  The queued script is: some topics discovered, a key    *)
(* that sets the focus, the keys that lead to the AppState (Enter and some *)
(* row and column moves for ActivePane, then `i` for ShowingInstructions), *)
(* and one event: any key code of any kind, a Resize, or a ROS event.      *)
(***************************************************************************)
\* crossterm's KeyEventKind
AllKeyEventKinds == {"Press", "Repeat", "Release"}
AllEvents ==
    {KeyEvent(c, k) : c \in KeyCodes, k \in AllKeyEventKinds}
        \cup {Resize} \cup RosEvents
Moves(k) == [i \in 1..k |-> Press(IF i % 2 = 1 THEN "Down" ELSE "l")]
Reach(st, k) ==
    CASE st = "Navigation" -> <<>>
      [] st = "ActivePane" -> <<Press("Enter")>> \o Moves(k)
      [] st = "ShowingInstructions" -> <<Press("Enter")>> \o Moves(k) \o <<Press("i")>>
FrameScript(n, f, st, k, e) ==
    [i \in 1..n |-> ScriptTopic(i)] \o <<Press(f)>> \o Reach(st, k) \o <<e>>
FrameScripts ==
    {FrameScript(n, f, st, k, e) :
        n \in 0..1, f \in FocusKeys,
        st \in {"Navigation", "ActivePane", "ShowingInstructions"},
        k \in 0..MaxMoves, e \in AllEvents}

InitFrame ==
    /\ app = App_new
    /\ bus \in FrameScripts
    /\ pc = "recv"
    /\ redraws = 0
    /\ input_reads = 0
    /\ ros_sends = 0
    /\ hist = Idle
    /\ threads = Threads_spawned
    /\ graph = Graph_quiet
    /\ terminal = <<>>
    /\ log = Log_each

NextFrame == RunRecv \/ RunDraw

FrameSpec == InitFrame /\ [][NextFrame]_vars

(***************************************************************************)
(* The whole program: main spawns the input thread and the ROS thread,     *)
(* which starts the subscription task and the watcher task; all of them    *)
(* send into the one channel App::run receives from.  The process ends     *)
(* when App::run returns or panics.                                        *)
(***************************************************************************)
Running == pc \in {"recv", "draw"}

\* mpsc::Sender::send
Sender_send(channel, event) == Append(channel, event)

\* handle_input_events: one turn of its loop.  read() returns a key event,
\* a resize, or an event of another kind (mouse, focus, paste), which is
\* not forwarded.
InputRead ==
    /\ Running
    /\ threads.input = "reading"
    /\ terminal # <<>>
    /\ Len(bus) < MaxQueued
    /\ terminal' = Tail(terminal)
    /\ IF Head(terminal).type \in {"Input", "Resize"}
       THEN /\ bus' = Sender_send(bus, Head(terminal))
            /\ input_reads' = input_reads + 1
            /\ log' = [log EXCEPT !.inputs = Append(@, Head(terminal))]
       ELSE UNCHANGED <<bus, input_reads, log>>
    /\ UNCHANGED <<app, pc, redraws, ros_sends, hist, threads, graph>>

\* crossterm::event::read() returns Err: unwrap() panics and the input
\* thread ends; main and the other threads go on
InputReadFails ==
    /\ Running
    /\ threads.input = "reading"
    /\ threads' = [threads EXCEPT !.input = "panicked"]
    /\ UNCHANGED <<app, bus, pc, redraws, input_reads, ros_sends, hist, graph, terminal, log>>

\* run_ros_thread: Context::create and Node::create succeed
RosSetup ==
    /\ Running
    /\ threads.ros = "setup"
    /\ threads' = [threads EXCEPT !.ros = "announce"]
    /\ UNCHANGED <<app, bus, pc, redraws, input_reads, ros_sends, hist, graph, terminal, log>>

\* ... or one of them fails: run_ros_thread returns Err, the unwrap() in
\* the closure main spawned panics and the ROS thread ends
RosSetupFails ==
    /\ Running
    /\ threads.ros = "setup"
    /\ threads' = [threads EXCEPT !.ros = "failed"]
    /\ UNCHANGED <<app, bus, pc, redraws, input_reads, ros_sends, hist, graph, terminal, log>>

\* run_ros_thread sends its first message and spawns the two tasks
RosAnnounce ==
    /\ Running
    /\ threads.ros = "announce"
    /\ Len(bus) < MaxQueued
    /\ bus' = Sender_send(bus, SubscriptionMessage("Subscribing to /topic"))
    /\ threads' = [threads EXCEPT !.ros = "spinning", !.sub = "subscribing",
                                  !.watch = "timer"]
    /\ UNCHANGED <<app, pc, redraws, input_reads, ros_sends, hist, graph, terminal, log>>

\* subscribe: the subscription is created
Subscribe ==
    /\ Running
    /\ threads.sub = "subscribing"
    /\ ~graph.hung
    /\ threads' = [threads EXCEPT !.sub = "streaming"]
    /\ UNCHANGED <<app, bus, pc, redraws, input_reads, ros_sends, hist, graph, terminal, log>>

\* ... or Node::subscribe returns Err and the task ends at its unwrap()
SubscribeFails ==
    /\ Running
    /\ threads.sub = "subscribing"
    /\ ~graph.hung
    /\ threads' = [threads EXCEPT !.sub = "failed"]
    /\ UNCHANGED <<app, bus, pc, redraws, input_reads, ros_sends, hist, graph, terminal, log>>

\* the k-th payload the stream delivers
Payload(k) == "data" \o ToString(k)

\* subscribe: the closure of for_each, run for one message of the stream
StreamDelivers ==
    /\ Running
    /\ threads.sub = "streaming"
    /\ ~graph.hung
    /\ threads.payloads < MaxPayloads
    /\ Len(bus) < MaxQueued
    /\ bus' = Sender_send(bus, SubscriptionMessage(Payload(threads.payloads + 1)))
    /\ threads' = [threads EXCEPT !.payloads = @ + 1]
    /\ UNCHANGED <<app, pc, redraws, input_reads, ros_sends, hist, graph, terminal, log>>

Range(seq) == {seq[i] : i \in 1..Len(seq)}
\* the orders a HashMap's iterator may give the names of a set in
Orderings(names) ==
    {order \in [1..Cardinality(names) -> names] : Range(order) = names}

\* WatcherPoll collecting every name the Graph Service answers
WatcherPoll_without_filter ==
    /\ Running
    /\ threads.watch = "timer"
    /\ ~graph.hung
    /\ \E order \in Orderings(graph.topics) :
            threads' = [threads EXCEPT !.new_topics = order,
                                       !.watch = IF order = <<>> THEN "timer" ELSE "emitting"]
    /\ log' = [log EXCEPT !.reported = @ \cup graph.topics,
                          !.listed_nodes = @ \cup graph.nodes,
                          !.known_again = @ \cup (graph.topics \cap Range(threads.topics))]
    /\ UNCHANGED <<app, bus, pc, redraws, input_reads, ros_sends, hist, graph, terminal>>

\* send_topics: the timer ticks, the Graph Service answers, and the names
\* not in `topics` are collected in the order the map iterates
WatcherPoll ==
    /\ Running
    /\ threads.watch = "timer"
    /\ ~graph.hung
    /\ \E order \in Orderings(graph.topics \ Range(threads.topics)) :
            threads' = [threads EXCEPT !.new_topics = order,
                                       !.watch = IF order = <<>> THEN "timer" ELSE "emitting"]
    /\ log' = [log EXCEPT !.reported = @ \cup graph.topics,
                          !.listed_nodes = @ \cup graph.nodes,
                          !.known_again = @ \cup (graph.topics \cap Range(threads.topics))]
    /\ UNCHANGED <<app, bus, pc, redraws, input_reads, ros_sends, hist, graph, terminal>>

\* ... or get_topic_names_and_types() returns Err and the task ends at its
\* unwrap()
WatcherPollFails ==
    /\ Running
    /\ threads.watch = "timer"
    /\ ~graph.hung
    /\ threads' = [threads EXCEPT !.watch = "failed"]
    /\ UNCHANGED <<app, bus, pc, redraws, input_reads, ros_sends, hist, graph, terminal, log>>

\* send_topics: one turn of `for topic in &new_topics`
WatcherEmit ==
    /\ Running
    /\ threads.watch = "emitting"
    /\ Len(bus) < MaxQueued
    /\ LET topic == Head(threads.new_topics)
           event == NewTopic(topic, GraphTypeOf(topic))
       IN  /\ threads' = [threads EXCEPT
                  !.topics = Append(@, topic),
                  !.new_topics = Tail(@),
                  !.watch = IF Tail(threads.new_topics) = <<>> THEN "timer" ELSE "emitting"]
           /\ bus' = Sender_send(bus, event)
           /\ log' = [log EXCEPT !.emitted = Append(@, event)]
    /\ UNCHANGED <<app, pc, redraws, input_reads, ros_sends, hist, graph, terminal>>

\* the Graph Service: a topic appears in its listing or disappears from it
GraphChange ==
    /\ Running
    /\ \E name \in GraphTopicNames :
            graph' = [graph EXCEPT
                !.topics = IF name \in @ THEN @ \ {name} ELSE @ \cup {name}]
    /\ UNCHANGED <<app, bus, pc, redraws, input_reads, ros_sends, hist, threads, terminal, log>>

\* the Graph Service: from now on its calls and its stream block
GraphHangs ==
    /\ Running
    /\ ~graph.hung
    /\ graph' = [graph EXCEPT !.hung = TRUE]
    /\ UNCHANGED <<app, bus, pc, redraws, input_reads, ros_sends, hist, threads, terminal, log>>

(***************************************************************************)
(* The program while the user types little: the ROS thread, the            *)
(* subscription, the watcher and a Graph Service whose listing changes.    *)
(***************************************************************************)
FewKeys == {<<>>, <<Press("l"), Press("Enter")>>, <<[type |-> "Mouse"], Resize>>}

InitWatch ==
    /\ app = App_new
    /\ bus = <<>>
    /\ pc = "recv"
    /\ redraws = 0
    /\ input_reads = 0
    /\ ros_sends = 0
    /\ hist = Idle
    /\ threads = Threads_spawned
    /\ \E listed \in SUBSET GraphTopicNames : graph = [Graph_quiet EXCEPT !.topics = listed]
    /\ terminal \in FewKeys
    /\ log = Log_on

NextWatch ==
    \/ InputRead
    \/ RosSetup \/ RosSetupFails \/ RosAnnounce
    \/ Subscribe \/ SubscribeFails \/ StreamDelivers
    \/ WatcherPoll \/ WatcherPollFails \/ WatcherEmit
    \/ GraphChange \/ GraphHangs
    \/ RunRecv \/ RunDraw

WatchSpec == InitWatch /\ [][NextWatch]_vars

(***************************************************************************)
(* The program until the watcher's timer first ticks: the user types a     *)
(* pane key, Enter, some Down presses and q, and the terminal may be       *)
(* resized, while the ROS thread sets up and the subscription streams.     *)
(***************************************************************************)
Typed(f, k, resized) ==
    <<Press(f), Press("Enter")>>
        \o (IF resized THEN <<Resize>> ELSE <<>>)
        \o [i \in 1..k |-> Press(IF i % 2 = 1 THEN "Down" ELSE "j")]
        \o <<Press("q")>>
TypedKeys == {Typed(f, k, r) : f \in {"n", "t"}, k \in 0..MaxMoves, r \in BOOLEAN}

InitMain ==
    /\ app = App_new
    /\ bus = <<>>
    /\ pc = "recv"
    /\ redraws = 0
    /\ input_reads = 0
    /\ ros_sends = 0
    /\ hist = Idle
    /\ threads = Threads_spawned
    /\ graph = Graph_quiet
    /\ terminal \in TypedKeys
    /\ log = Log_on

NextMain ==
    \/ InputRead \/ InputReadFails
    \/ RosSetup \/ RosSetupFails \/ RosAnnounce
    \/ Subscribe \/ SubscribeFails \/ StreamDelivers
    \/ GraphHangs
    \/ RunRecv \/ RunDraw

MainSpec == InitMain /\ [][NextMain]_vars

\* App::run is the main thread's only work and redraws return: whenever it
\* can take its next step it does
FairMainSpec == MainSpec /\ WF_vars(RunRecv) /\ WF_vars(RunDraw)

(***************************************************************************)
(* Steps of the Controller, for the properties below.                      *)
(***************************************************************************)
\* this step is rx.recv() returning Head(bus)
Received == pc = "recv" /\ pc' # "recv"
\* ... and the match arm ran to its end
Handled == pc = "recv" /\ pc' = "draw"
HandledPress(codes) ==
    /\ Handled
    /\ Head(bus).type = "Input"
    /\ Head(bus).kind = "Press"
    /\ Head(bus).code \in codes
HandledRos(type) == Handled /\ Head(bus).type = type

FocusedPane(self) == self.pane_manager.focused_pane
Nodes(self) == self.pane_manager.node_pane.nodes
Topics(self) == self.pane_manager.topics_pane.topics
NodeSelected(self) == self.pane_manager.node_pane.state.selected
TopicSelected(self) == self.pane_manager.topics_pane.state.selected
\* the length and the row selection of the focused pane's list
FocusedLen(self) ==
    IF FocusedPane(self) = "NodePane" THEN Len(Nodes(self)) ELSE Len(Topics(self))
FocusedSelected(self) ==
    IF FocusedPane(self) = "NodePane" THEN NodeSelected(self) ELSE TopicSelected(self)
IsPrefix(s, t) == Len(s) <= Len(t) /\ SubSeq(t, 1, Len(s)) = s

(***************************************************************************)
(* C1: a pressed q the Controller handles sets AppState to Exit, and once  *)
(* AppState is Exit the Controller receives nothing more: the App (its     *)
(* AppState, focus, lists and details) never changes again and the channel *)
(* only grows, whatever is queued or sent afterwards.                      *)
(***************************************************************************)
C1_QuitIsFinal ==
    [][/\ HandledPress({"q"}) => app'.app_state = "Exit"
       /\ app.app_state = "Exit" => /\ app' = app
                                    /\ ~Received
                                    /\ IsPrefix(bus, bus')]_vars

\* the Controller has left its loop in Exit with an event still queued
C1_Witness == pc = "done" /\ app.app_state = "Exit" /\ bus # <<>>

(***************************************************************************)
(* C2: the initial AppState is Navigation, and AppState changes only by a  *)
(* handled key press, along one of: Navigation -Enter-> ActivePane,        *)
(* ActivePane -Esc-> Navigation, Navigation or ActivePane -i->             *)
(* ShowingInstructions, ShowingInstructions -Esc or i-> Navigation, any    *)
(* state -q-> Exit.  So Exit has no way out and no Resize or ROS event     *)
(* changes AppState.                                                       *)
(***************************************************************************)
AllowedTransitions ==
    {<<"Navigation", "Enter", "ActivePane">>,
     <<"ActivePane", "Esc", "Navigation">>,
     <<"Navigation", "i", "ShowingInstructions">>,
     <<"ActivePane", "i", "ShowingInstructions">>,
     <<"ShowingInstructions", "Esc", "Navigation">>,
     <<"ShowingInstructions", "i", "Navigation">>}
        \cup {<<st, "q", "Exit">> : st \in AppState \ {"Exit"}}

C2_OnlyListedTransitions ==
    /\ app.app_state = "Navigation"
    /\ [][app'.app_state # app.app_state =>
            /\ HandledPress(KeyCodes)
            /\ <<app.app_state, Head(bus).code, app'.app_state>> \in AllowedTransitions]_vars

\* the instructions are showing and a ROS event has been handled since Enter
C2_Witness ==
    /\ app.app_state = "ShowingInstructions"
    /\ hist.on
    /\ Len(hist.keys) = 2
    /\ "i" \in {hist.keys[1], hist.keys[2]}
    /\ {hist.keys[1], hist.keys[2]} \cap {"NewNode", "NewTopic", "SubscriptionMessage"} # {}

(***************************************************************************)
(* C3: a pressed i handled in Navigation or in ActivePane leads to         *)
(* ShowingInstructions, and a pressed Esc or i handled in                  *)
(* ShowingInstructions leads to Navigation, never to ActivePane, also when *)
(* ShowingInstructions was entered from ActivePane.                        *)
(***************************************************************************)
C3_InstructionsReturnToNavigation ==
    [][/\ HandledPress({"i"}) /\ app.app_state \in {"Navigation", "ActivePane"}
            => app'.app_state = "ShowingInstructions"
       /\ HandledPress({"Esc", "i"}) /\ app.app_state = "ShowingInstructions"
            => app'.app_state = "Navigation"]_vars

\* Enter, i, Esc: the instructions were opened from ActivePane and closed
C3_Witness ==
    /\ hist.on
    /\ hist.keys = <<"i", "Esc">>
    /\ app.app_state = "Navigation"

(***************************************************************************)
(* C4: Enter handled in Navigation leads to ActivePane, and an Esc handled *)
(* right after it leads back to Navigation, with the focus, both lists     *)
(* (contents, row selection, column cursor, scroll state) and the details  *)
(* as they were before the Enter.                                          *)
(***************************************************************************)
C4_EnterEscRoundTrip ==
    hist.on =>
        /\ hist.keys = <<>> =>
                /\ app.app_state = "ActivePane"
                /\ app.pane_manager = hist.start.pane_manager
        /\ hist.keys = <<"Esc">> =>
                /\ app.app_state = "Navigation"
                /\ app.pane_manager = hist.start.pane_manager
                /\ app.details = hist.start.details

\* Enter, Esc was handled with the topic pane focused, holding two topics
\* or more and a selected row
C4_Witness ==
    /\ hist.on
    /\ hist.keys = <<"Esc">>
    /\ app.app_state = "Navigation"
    /\ FocusedPane(app) = "TopicsPane"
    /\ Len(Topics(app)) >= 2
    /\ TopicSelected(app) # None

(***************************************************************************)
(* C5: a pressed Right or l handled in Navigation moves the focus along    *)
(* Node -> Topics -> Details -> Node, a pressed Left or h along            *)
(* Node -> Details -> Topics -> Node; from the focus the key finds, three  *)
(* moves the same way come back to it, and a move back undoes a move on.   *)
(***************************************************************************)
CycleNext ==
    [f \in PaneType |->
        CASE f = "NodePane" -> "TopicsPane"
          [] f = "TopicsPane" -> "DetailsPane"
          [] f = "DetailsPane" -> "NodePane"]
CyclePrevious ==
    [f \in PaneType |->
        CASE f = "NodePane" -> "DetailsPane"
          [] f = "DetailsPane" -> "TopicsPane"
          [] f = "TopicsPane" -> "NodePane"]

C5_FocusCycles ==
    [][LET pm == app.pane_manager
       IN  /\ HandledPress({"Right", "l"}) /\ app.app_state = "Navigation" =>
                /\ FocusedPane(app') = CycleNext[pm.focused_pane]
                /\ app'.pane_manager = next_pane(pm)
                /\ next_pane(next_pane(next_pane(pm))) = pm
                /\ previous_pane(next_pane(pm)) = pm
           /\ HandledPress({"Left", "h"}) /\ app.app_state = "Navigation" =>
                /\ FocusedPane(app') = CyclePrevious[pm.focused_pane]
                /\ app'.pane_manager = previous_pane(pm)
                /\ previous_pane(previous_pane(previous_pane(pm))) = pm]_vars

\* the focus is on the details pane after exactly two key presses sent and
\* handled, the second of them still to be drawn
C5_Witness ==
    /\ app.app_state = "Navigation"
    /\ FocusedPane(app) = "DetailsPane"
    /\ input_reads = 2
    /\ ros_sends = 0
    /\ bus = <<>>
    /\ pc = "draw"

(***************************************************************************)
(* C6: handling NewTopic (NewNode) with a name the topic (node) list       *)
(* already holds leaves the list's length as it is, and with a new name    *)
(* makes it one longer.                                                    *)
(***************************************************************************)
HasName(list, name) == \E i \in 1..Len(list) : list[i].name = name

C6_AppendDedup ==
    [][/\ HandledRos("NewTopic") =>
            Len(Topics(app')) = Len(Topics(app))
                + (IF HasName(Topics(app), Head(bus).name) THEN 0 ELSE 1)
       /\ HandledRos("NewNode") =>
            Len(Nodes(app')) = Len(Nodes(app))
                + (IF HasName(Nodes(app), Head(bus).name) THEN 0 ELSE 1)]_vars

(***************************************************************************)
(* C7: for the node list and for the topic list, a row selection is an     *)
(* index of the list, and an empty list has no row selected.  (The claim   *)
(* also has every non-empty list selected; App::new leaves its fourteen    *)
(* nodes unselected, so that half fails in the first state whatever the    *)
(* row movement does.  What is stated here is the rest.)                   *)
(***************************************************************************)
SelectionValid(selected, list) ==
    /\ selected # None => Unwrap(selected) < Len(list)
    /\ Len(list) = 0 => selected = None

C7_SelectionValid ==
    /\ SelectionValid(NodeSelected(app), Nodes(app))
    /\ SelectionValid(TopicSelected(app), Topics(app))

(***************************************************************************)
(* C8: in ActivePane a pressed Down or j takes the row selection i of a    *)
(* focused list of N >= 1 rows to (i+1) mod N, a pressed Up or k takes it  *)
(* to (i-1+N) mod N, and on a focused list of no rows either key is        *)
(* handled and changes nothing.                                            *)
(***************************************************************************)
ReceivedPress(codes) ==
    /\ Received
    /\ Head(bus).type = "Input"
    /\ Head(bus).kind = "Press"
    /\ Head(bus).code \in codes

C8_RowMovement ==
    [][/\ app.app_state = "ActivePane"
       /\ FocusedPane(app) \in {"NodePane", "TopicsPane"}
       /\ ReceivedPress({"Down", "j", "Up", "k"})
       => LET n == FocusedLen(app)
              selected == FocusedSelected(app)
              down == Head(bus).code \in {"Down", "j"}
          IN  /\ n >= 1 /\ selected # None /\ Unwrap(selected) < n =>
                    FocusedSelected(app') =
                        Some(IF down THEN (Unwrap(selected) + 1) % n
                                     ELSE (Unwrap(selected) - 1 + n) % n)
              /\ n = 0 => Handled /\ app' = app]_vars

(***************************************************************************)
(* C9: with a list pane of N >= 1 rows focused and no row selected, the    *)
(* keys Enter, k >= 1 times Down, Esc handled one after the other from     *)
(* Navigation end in Navigation with row (k-1) mod N selected.             *)
(***************************************************************************)
DownsThenEsc(keys) ==
    /\ Len(keys) >= 2
    /\ keys[Len(keys)] = "Esc"
    /\ \A i \in 1..(Len(keys) - 1) : keys[i] = "Down"

C9_EnterDownsEsc ==
    /\ hist.on
    /\ DownsThenEsc(hist.keys)
    /\ FocusedPane(hist.start) \in {"NodePane", "TopicsPane"}
    /\ FocusedLen(hist.start) >= 1
    /\ FocusedSelected(hist.start) = None
    => /\ app.app_state = "Navigation"
       /\ FocusedPane(app) = FocusedPane(hist.start)
       /\ FocusedLen(app) = FocusedLen(hist.start)
       /\ FocusedSelected(app) = Some((Len(hist.keys) - 2) % FocusedLen(hist.start))

\* the selection has gone round a list of three rows: Enter, four Downs, Esc
C9_Witness ==
    /\ hist.on
    /\ DownsThenEsc(hist.keys)
    /\ FocusedSelected(hist.start) = None
    /\ FocusedLen(hist.start) = 3
    /\ Len(hist.keys) - 1 > 3
    /\ FocusedSelected(app) = Some(0)

(***************************************************************************)
(* C10: whatever the AppState, a received ROS event is handled: NewNode    *)
(* appends its node to the node list, NewTopic its topic to the topic      *)
(* list, SubscriptionMessage its payload as one line to the details, and   *)
(* AppState and the focus stay as they are.                                *)
(***************************************************************************)
RosEventTypes == {"NewNode", "NewTopic", "SubscriptionMessage"}

C10_RosEventsAlwaysApplied ==
    [][Received /\ Head(bus).type \in RosEventTypes =>
        /\ Handled
        /\ app'.app_state = app.app_state
        /\ FocusedPane(app') = FocusedPane(app)
        /\ Head(bus).type = "NewNode" =>
                Nodes(app') = Append(Nodes(app), [name |-> Head(bus).name])
        /\ Head(bus).type = "NewTopic" =>
                Topics(app') =
                    Append(Topics(app),
                           [name |-> Head(bus).name, msg_type |-> Head(bus).msg_type,
                            num_subscribers |-> 0])
        /\ Head(bus).type = "SubscriptionMessage" =>
                app'.details = Append(app.details, Head(bus).msg)]_vars

\* Enter, i, then a ROS event handled while the instructions are showing
C10_Witness ==
    /\ hist.on
    /\ Len(hist.keys) = 2
    /\ hist.keys[1] = "i"
    /\ hist.keys[2] \in RosEventTypes
    /\ app.app_state = "ShowingInstructions"

(***************************************************************************)
(* C11: every event the Controller receives is handled to its end, with at *)
(* most one change of AppState and at most one part of the model changed   *)
(* (the focus, the node list, the topic list or the details), and between  *)
(* two receives, and between the last receive and the end of the loop,     *)
(* there is exactly one redraw.                                            *)
(***************************************************************************)
ModelParts(self) ==
    <<self.pane_manager.focused_pane, self.pane_manager.node_pane,
      self.pane_manager.topics_pane, self.details>>
Mutations(before, after) ==
    Cardinality({i \in 1..4 : ModelParts(before)[i] # ModelParts(after)[i]})
\* the events received so far, from what was sent and what still waits
EventsReceived == input_reads + ros_sends - Len(bus)

C11_OneChangeOneRedraw ==
    [][/\ Received =>
            /\ Handled
            /\ Mutations(app, app') <= 1
            /\ app'.app_state # app.app_state => Mutations(app, app') = 0
            /\ redraws = (IF EventsReceived = 0 THEN 0 ELSE 1)
       /\ pc = "draw" /\ pc' # "draw" =>
            /\ redraws = 0 /\ redraws' = 1
            /\ pc' \in {"recv", "done"}
            /\ app' = app
       /\ pc' = pc => redraws' = redraws]_vars

(***************************************************************************)
(* C12: the watcher never sends a second discovery event for a name, and   *)
(* whenever it has finished a poll it has sent exactly one NewTopic for    *)
(* every topic name, and exactly one NewNode for every node name, that the *)
(* Graph Service listed at one of its polls, whether or not the name is    *)
(* still listed.                                                           *)
(***************************************************************************)
EmittedFor(type, name) ==
    Cardinality({i \in 1..Len(log.emitted) :
                    log.emitted[i].type = type /\ log.emitted[i].name = name})
PollFinished == threads.watch = "timer" /\ threads.new_topics = <<>>

C12_DiscoveredExactlyOnce ==
    /\ \A name \in GraphTopicNames : EmittedFor("NewTopic", name) <= 1
    /\ \A name \in GraphNodeNames : EmittedFor("NewNode", name) <= 1
    /\ PollFinished =>
            /\ \A name \in log.reported : EmittedFor("NewTopic", name) = 1
            /\ \A name \in log.listed_nodes : EmittedFor("NewNode", name) = 1

(***************************************************************************)
(* C13: what one producer sent is received in the order it was sent, and   *)
(* the lists keep the order of arrival.  The names of the topic pane, then *)
(* those of the NewTopic events waiting in the channel, are the names in   *)
(* the order the watcher emitted them; the lines of the details, then the  *)
(* payloads waiting, are the ROS thread's first message and the payloads   *)
(* in the order the stream delivered them; the key and resize events       *)
(* waiting are the ones read and not yet received, in the order read.      *)
(* (Nothing is said about events of different producers.)                  *)
(***************************************************************************)
Waiting(types) == SelectSeq(bus, LAMBDA e : e.type \in types)
NamesOf(events) == [i \in 1..Len(events) |-> events[i].name]
PayloadsOf(events) == [i \in 1..Len(events) |-> events[i].msg]
LinesSent ==
    (IF threads.ros = "spinning" THEN <<"Subscribing to /topic">> ELSE <<>>)
        \o [k \in 1..threads.payloads |-> Payload(k)]

C13_PerProducerOrder ==
    /\ NamesOf(Topics(app)) \o NamesOf(Waiting({"NewTopic"})) = NamesOf(log.emitted)
    /\ app.details \o PayloadsOf(Waiting({"SubscriptionMessage"})) = LinesSent
    /\ Waiting({"Input", "Resize"}) = log.inputs

\* two topics, the first message with two payloads, and the keys l and
\* Enter have all been received and handled
C13_Witness ==
    /\ Len(Topics(app)) = 2
    /\ Len(app.details) = 3
    /\ app.app_state = "ActivePane"
    /\ FocusedPane(app) = "TopicsPane"

(***************************************************************************)
(* C14: the subscription task forwards each payload the stream delivers as *)
(* one SubscriptionMessage event, whatever waits in the channel, and once  *)
(* the k-th payload is delivered then, unless the Controller reaches Exit, *)
(* the details eventually hold that payload as exactly one line.           *)
(***************************************************************************)
LinesWith(payload) == Cardinality({i \in 1..Len(app.details) : app.details[i] = payload})

C14_PayloadsReachDetails ==
    /\ [][threads'.payloads # threads.payloads =>
            /\ threads'.payloads = threads.payloads + 1
            /\ bus' = Append(bus, SubscriptionMessage(Payload(threads'.payloads)))]_vars
    /\ \A k \in 1..MaxPayloads :
            (threads.payloads >= k) ~>
                (app.app_state = "Exit" \/ LinesWith(Payload(k)) = 1)

(***************************************************************************)
(* C15: once the Graph Service hangs, every key and resize event the input *)
(* thread has forwarded is still handled by the Controller in the end, and *)
(* a pressed q that waits in the channel still leads to Exit.              *)
(***************************************************************************)
\* the forwarded key and resize events whose match arm ran to its end
InputsHandled ==
    input_reads - Len(Waiting({"Input", "Resize"})) - (IF pc = "panicked" THEN 1 ELSE 0)
\* the longest run of events the user types
MaxTyped == MaxMoves + 4
QuitWaiting == \E i \in 1..Len(bus) : bus[i] = Press("q")

C15_HangDoesNotStall ==
    /\ \A n \in 1..MaxTyped :
            (graph.hung /\ input_reads >= n) ~>
                (InputsHandled >= n \/ app.app_state = "Exit")
    /\ (graph.hung /\ QuitWaiting) ~> (app.app_state = "Exit")

(***************************************************************************)
(* C16: a pressed q that is in the channel while the Controller runs is    *)
(* received in the end, whatever else is sent, and the Controller then     *)
(* leaves its loop with AppState Exit.                                     *)
(***************************************************************************)
C16_QuitTerminates ==
    (Running /\ QuitWaiting) ~> (pc = "done" /\ app.app_state = "Exit")

(***************************************************************************)
(* C17: once the ROS thread's setup (Context::create or Node::create) has  *)
(* failed, the Controller receives no event.                               *)
(***************************************************************************)
C17_SetupErrorIsFatal ==
    [][threads.ros = "failed" => ~Received]_vars

(***************************************************************************)
(* C18: once a producer has ended unexpectedly (the input thread at a      *)
(* failed read, the ROS thread at a failed setup) the Controller receives  *)
(* and handles no further event.                                           *)
(***************************************************************************)
ProducerEnded == threads.input = "panicked" \/ threads.ros = "failed"

C18_BusErrorIsFatal ==
    [][ProducerEnded => ~Received]_vars

(***************************************************************************)
(* C19: for the node pane and for the topic pane, the scroll offset is the *)
(* selected row's index times the row height, and 0 when no row is         *)
(* selected, in every state: also after a node or a topic has been         *)
(* appended while a row with an index above 0 was selected.                *)
(***************************************************************************)
ScrollFollowsSelection(pane) ==
    pane.scroll_state.position =
        (IF pane.state.selected = None THEN 0
                                       ELSE Unwrap(pane.state.selected) * ITEM_HEIGHT)

C19_ScrollFollowsSelection ==
    /\ ScrollFollowsSelection(app.pane_manager.node_pane)
    /\ ScrollFollowsSelection(app.pane_manager.topics_pane)

(***************************************************************************)
(* C20: in ActivePane a pressed Up, k, Down or j changes nothing but the   *)
(* row selection of the focused pane's list and the scroll offset that     *)
(* follows it, and a pressed Left, h, Right or l nothing but that list's   *)
(* column cursor; the other list, the details, the focus and AppState stay *)
(* as they are, and with the details pane focused nothing changes at all.  *)
(***************************************************************************)
RowKeys == {"Up", "k", "Down", "j"}
ColumnKeys == {"Left", "h", "Right", "l"}
FocusedList(self) ==
    IF FocusedPane(self) = "NodePane" THEN self.pane_manager.node_pane
                                      ELSE self.pane_manager.topics_pane
WithFocusedList(self, pane) ==
    IF FocusedPane(self) = "NodePane" THEN [self EXCEPT !.pane_manager.node_pane = pane]
                                      ELSE [self EXCEPT !.pane_manager.topics_pane = pane]

C20_MovementFrame ==
    [][app.app_state = "ActivePane" /\ ReceivedPress(RowKeys \cup ColumnKeys) =>
        IF FocusedPane(app) = "DetailsPane" THEN app' = app
        ELSE LET before == FocusedList(app)
                 after == FocusedList(app')
             IN  /\ app' = WithFocusedList(app, after)
                 /\ Head(bus).code \in RowKeys =>
                        after = [before EXCEPT
                                    !.state.selected = after.state.selected,
                                    !.scroll_state.position = after.scroll_state.position]
                 /\ Head(bus).code \in ColumnKeys =>
                        after = [before EXCEPT
                                    !.state.selected_column = after.state.selected_column]]_vars

\* Enter and two Down presses: the second moved the node pane's selection
\* from row 0 to row 1 and its scroll offset with it
C20_Witness ==
    /\ hist.on
    /\ hist.keys = <<"Down", "Down">>
    /\ app.app_state = "ActivePane"
    /\ FocusedPane(app) = "NodePane"
    /\ NodeSelected(app) = Some(1)
    /\ app.pane_manager.node_pane.scroll_state.position = 1 * ITEM_HEIGHT

\* the claim as it stands: the row keys change the row selection only
C20_RowKeysChangeSelectionOnly ==
    [][app.app_state = "ActivePane" /\ ReceivedPress(RowKeys \cup ColumnKeys) =>
        IF FocusedPane(app) = "DetailsPane" THEN app' = app
        ELSE LET before == FocusedList(app)
                 after == FocusedList(app')
             IN  /\ app' = WithFocusedList(app, after)
                 /\ Head(bus).code \in RowKeys =>
                        after = [before EXCEPT !.state.selected = after.state.selected]
                 /\ Head(bus).code \in ColumnKeys =>
                        after = [before EXCEPT
                                    !.state.selected_column = after.state.selected_column]]_vars

(***************************************************************************)
(* C21: a Resize event received in Navigation, ActivePane or               *)
(* ShowingInstructions leaves the whole App (AppState, FocusedPane, both   *)
(* lists with their row selection and column cursor, the details) as it    *)
(* was, and its only effect is the redraw that follows it: one draw, of    *)
(* the unchanged App.                                                      *)
(***************************************************************************)
C21_ResizeOnlyRedraws ==
    [][/\ (Received /\ Head(bus) = Resize) =>
            (app' = app /\ pc' = "draw" /\ redraws' = 0)
       /\ (pc = "draw" /\ log.last = <<Resize>>) =>
            (app' = app /\ pc' = "recv" /\ redraws' = 1)]_vars

\* a Resize was the last event received, in ShowingInstructions with the
\* topic pane focused, a row selected and the column cursor moved, and the
\* redraw after it is done
C21_Witness ==
    /\ log.last = <<Resize>>
    /\ pc = "recv"
    /\ redraws = 1
    /\ app.app_state = "ShowingInstructions"
    /\ FocusedPane(app) = "TopicsPane"
    /\ Len(Topics(app)) = 1
    /\ TopicSelected(app) = Some(0)
    /\ app.pane_manager.topics_pane.state.selected_column = Some(0)

(***************************************************************************)
(* C22: while the Controller is fed by the program's own producers, with   *)
(* the Graph Service listing and unlisting topics as it likes, no two      *)
(* records of the topic list have the same name and no two records of the  *)
(* node list have the same name.                                           *)
(***************************************************************************)
NoTwoShareAName(records) ==
    \A i, j \in 1..Len(records) : records[i].name = records[j].name => i = j

C22_NamesUnique ==
    /\ NoTwoShareAName(Topics(app))
    /\ NoTwoShareAName(Nodes(app))

\* both topics are in the list, next to the fourteen nodes of App::new,
\* after a poll whose answer listed /topic when the watcher knew it already
C22_Witness ==
    /\ "/topic" \in log.known_again
    /\ PollFinished
    /\ bus = <<>>
    /\ Len(Topics(app)) = 2
    /\ Len(Nodes(app)) = LastTestNode

(***************************************************************************)
(* C23: FocusedPane changes only by a key press handled while AppState is  *)
(* Navigation: no key event handled in ActivePane or ShowingInstructions,  *)
(* no event at all once in Exit, and no Resize or ROS event in any state,  *)
(* changes which pane is focused; and a key other than Esc, `i` and `q`    *)
(* received in ShowingInstructions leaves the whole App unchanged.         *)
(***************************************************************************)
C23_FocusOnlyInNavigation ==
    [][/\ FocusedPane(app') # FocusedPane(app) =>
            (app.app_state = "Navigation" /\ HandledPress(KeyCodes))
       /\ (/\ Received
           /\ app.app_state = "ShowingInstructions"
           /\ Head(bus).type = "Input"
           /\ Head(bus).code \notin {"Esc", "i", "q"}) => app' = app]_vars

\* the topic pane got the focus in Navigation, and Enter, `i` and then a
\* Down press were handled: still ShowingInstructions, the App as it was
\* at the Enter but for the AppState
C23_Witness ==
    /\ hist.on
    /\ hist.keys = <<"i", "Down">>
    /\ pc = "draw"
    /\ app.app_state = "ShowingInstructions"
    /\ FocusedPane(app) = "TopicsPane"
    /\ app = [hist.start EXCEPT !.app_state = "ShowingInstructions"]

(***************************************************************************)
(* C24: a key event whose kind is not Press (a release or a repeat), of    *)
(* any key code and received in Navigation, ActivePane or                  *)
(* ShowingInstructions, leaves the whole App (AppState, FocusedPane, row   *)
(* selections, column cursors, lists and details) as it was, and one       *)
(* redraw follows it.                                                      *)
(***************************************************************************)
NotAPress(events) ==
    /\ events # <<>>
    /\ Head(events).type = "Input"
    /\ Head(events).kind # "Press"

C24_OnlyPressesAct ==
    [][/\ (Received /\ NotAPress(bus)) =>
            (app' = app /\ pc' = "draw" /\ redraws' = 0)
       /\ (pc = "draw" /\ NotAPress(log.last)) =>
            (app' = app /\ pc' = "recv" /\ redraws' = 1)]_vars

\* a release of `q` was the last event received, in ActivePane with the
\* node pane focused and a row selected, and the redraw after it is done:
\* the Controller is receiving again
C24_Witness ==
    /\ log.last = <<KeyEvent("q", "Release")>>
    /\ pc = "recv"
    /\ redraws = 1
    /\ app.app_state = "ActivePane"
    /\ FocusedPane(app) = "NodePane"
    /\ NodeSelected(app) = Some(0)

====
